---- MODULE Spec2Model ----
(***************************************************************************)
(* Model of src/main.py: the interactive session state machine of          *)
(* run_interactive_cli, its page scan loop and its exits.                   *)
(*                                                                         *)
(* One action per step of a state handler.  A handler that blocks more     *)
(* than once (a second prompt, the browser settle delay, the page loop)    *)
(* is split at those points with pc, so that an operator interrupt can     *)
(* arrive between them, as KeyboardInterrupt can in the program.           *)
(***************************************************************************)
EXTENDS Integers, Sequences, FiniteSets, TLC

\* ------------------------------------------------------------------ bounds
\* Largest page count the viewer reports in the model.
MaxPageCount == 11
\* Most documents the operator scans in one session.
MaxDocs == 2

\* --------------------------------------------------------------- constants
\* class PDFScanError(IntEnum), auto() numbers from 1.
NoError == 1
DriverError == 2
LoadError == 3
PropertiesFetchError == 4
ZoomError == 5
PaginationError == 6
PDFScanError == {NoError, DriverError, LoadError, PropertiesFetchError, ZoomError, PaginationError}

\* class SessionState(IntEnum).
SessionState == {"Start", "Login", "OpenPDF", "DestinationDirectory", "PrepareScan", "ScanPDF", "AnotherPDF", "CloseSession"}

\* The value of the local `browser`: None, or the webdriver object.
None == "None"
Handle == "webdriver.Firefox"

\* The page counts the viewer's "of N" label gives (line 137): none, one, a
\* few, the last count with one-digit indices only, and the largest.
PageCounts == {0, 1, 2, 3, 10, MaxPageCount}

\* ------------------------------------------------------------ operator input
\* A line of operator input is a sequence of characters; "" is <<>>.
EmptyLine == <<>>
\* Answers tried at the y/Y prompts.
Answers == {<<"y">>, <<"Y">>, <<>>, <<"n">>, <<"y", "e", "s">>}
\* Faulty variant of Affirmative: any answer that starts with y or Y is taken as yes.
AffirmativePrefix(ans) == ans # <<>> /\ ans[1] \in {"y", "Y"}
\* `confirm not in ("y", "Y")`, `another in ("y", "Y")`.
Affirmative(ans) == ans \in {<<"y">>, <<"Y">>}

\* A directory name is a sequence of path components; a first component "/"
\* makes it absolute.  Names tried at the directory prompt.
DirInputs == {<<>>, <<"out">>, <<"new">>, <<"/", "cwd", "notes.txt">>}
\* The process's working directory.
Cwd == <<"/", "cwd">>
\* pathlib.Path() of line 164: the relative path ".".
DotPath == <<".">>
\* pathlib.Path(out_dir).resolve(): an absolute path is kept, a relative one
\* is joined to the working directory.
Resolve(p) == IF p # <<>> /\ p[1] = "/" THEN p ELSE Cwd \o p
ResolvedDirs == {Resolve(p) : p \in DirInputs \ {<<>>}}
\* The file system holds a regular file at this path throughout.
PlainFiles == {Cwd \o <<"notes.txt">>}
\* dst_directory.exists() (line 224): true of a directory and of a regular
\* file alike; ds are the directories that exist.
Exists(p, ds) == p \in ds \/ p \in PlainFiles

\* ------------------------------------------------------------- file names
DigitChars == <<"0", "1", "2", "3", "4", "5", "6", "7", "8", "9">>
\* str(page) for page >= 0: the decimal digits, most significant first.
RECURSIVE Str(_)
Str(n) == IF n < 10 THEN <<DigitChars[n + 1]>> ELSE Str(n \div 10) \o <<DigitChars[(n % 10) + 1]>>
\* str.zfill(width): pad on the left with "0" up to width, never truncate.
RECURSIVE ZFill(_, _)
ZFill(s, width) == IF Len(s) >= width THEN s ELSE ZFill(<<"0">> \o s, width)
\* int(log10(n)) for n >= 1: the number of decimal digits of n, less one.
RECURSIVE IntLog10(_)
IntLog10(n) == IF n < 10 THEN 0 ELSE 1 + IntLog10(n \div 10)
\* pad_size: int = int(log10(pdf_properties["page_count"]))
PadSize(count) == IntLog10(count)
\* f"page_{str(page).zfill(pad_size)}.png"
PageName(p, pad) == <<"p", "a", "g", "e", "_">> \o ZFill(Str(p), pad) \o <<".", "p", "n", "g">>

\* ------------------------------------------------------------ exit status
\* sys.exit(code): the status the parent sees is the low 8 bits.
SysExit(code) == code % 256
\* An exception that leaves run_interactive_cli uncaught ends the
\* interpreter with a traceback and status 1.
UncaughtExit == SysExit(1)

\* ------------------------------------------------------------------ state
VARIABLES
    session_state,   \* session_state: SessionState
    ret_code,        \* ret_code: PDFScanError
    browser,         \* the local `browser`: None or the handle
    dst_directory,   \* dst_directory: pathlib.Path
    page_count,      \* pdf_properties["page_count"]; -1 while pdf_properties = {}
    pad_size,        \* pad_size of the current scan
    page,            \* loop variable `page`
    pc,              \* position inside the current handler
    exited,          \* the process has ended
    exit_status,     \* its exit status (meaningful once exited)
    dirs,            \* file system: the directories that exist
    files,           \* file system: <<directory, file name>> of saved screenshots
    browser_proc,    \* the browser process: "none", "running", "quit"
    quit_calls,      \* number of browser.quit() invocations
    written,         \* the file names saved by the current scan, in order
    docs,            \* documents whose scan completed
    fault,           \* the collaborator call that raised, "none" if none did
    end_kind,        \* how the process ended: "none", "close", "interrupt", "uncaught"
    last_prompt,     \* the prompt answered last
    last_input,      \* the line the operator gave there
    dst_before,      \* dst_directory when the directory prompt was last answered
    calls            \* the collaborator calls of the current scan, in order

vars == <<session_state, ret_code, browser, dst_directory, page_count, pad_size, page, pc,
          exited, exit_status, dirs, files, browser_proc, quit_calls, written, docs,
          fault, end_kind, last_prompt, last_input, dst_before, calls>>

\* Lines 163-176; the file system starts with the working directory, with or
\* without the directory out in it.
Init ==
    /\ session_state = "Start"
    /\ ret_code = NoError
    /\ browser = None
    /\ dst_directory = DotPath
    /\ page_count = -1
    /\ pad_size = 0
    /\ page = 0
    /\ pc = "top"
    /\ exited = FALSE
    /\ exit_status = 0
    /\ dirs \in {{Cwd}, {Cwd, Cwd \o <<"out">>}}
    /\ files = {}
    /\ browser_proc = "none"
    /\ quit_calls = 0
    /\ written = <<>>
    /\ docs = 0
    /\ fault = "none"
    /\ end_kind = "none"
    /\ last_prompt = "none"
    /\ last_input = <<>>
    /\ dst_before = DotPath
    /\ calls = <<>>

\* ------------------------------------------------------------------ exits
\* Faulty variant of BrowserIsSet: quit is called whatever `browser` holds.
BrowserIsSetAlways(b) == TRUE
\* `if browser:` of lines 289 and 299.
BrowserIsSet(b) == b # None

\* The process ends with an exception no handler of run_interactive_cli
\* catches: the loop's try (line 179) catches only KeyboardInterrupt and
\* EOFError (line 298), so nothing of lines 288-301 runs.
Uncaught(f) ==
    /\ exited' = TRUE
    /\ exit_status' = UncaughtExit
    /\ end_kind' = "uncaught"
    /\ fault' = f

\* Lines 298-301: KeyboardInterrupt or EOFError raised anywhere inside the
\* loop's try.
Interrupt ==
    /\ ~exited
    /\ quit_calls' = IF BrowserIsSet(browser) THEN quit_calls + 1 ELSE quit_calls
    /\ browser_proc' = IF BrowserIsSet(browser) THEN "quit" ELSE browser_proc
    /\ exited' = TRUE
    /\ exit_status' = SysExit(-1)
    /\ end_kind' = "interrupt"
    /\ calls' = calls
    /\ UNCHANGED <<session_state, ret_code, browser, dst_directory, page_count, pad_size,
                   page, pc, dirs, files, written, docs, fault, last_prompt, last_input,
                   dst_before>>

\* ------------------------------------------------------------------ Start
\* Lines 181-185: the prompt is answered and webdriver.Firefox(...) is called.
\* It either raises (lines 186-189: the failure prompt is shown next) or the
\* browser process is up and browser_init_firefox sleeps 10 s (line 62)
\* before `browser` is assigned.
StartLaunch ==
    /\ ~exited /\ session_state = "Start" /\ pc = "top"
    /\ last_prompt' = "open_browser" /\ last_input' = EmptyLine
    /\ \/ /\ browser_proc' = "running"
          /\ pc' = "settle"
          /\ UNCHANGED <<session_state, ret_code, fault>>
       \/ /\ ret_code' = DriverError
          /\ session_state' = "CloseSession"
          /\ pc' = "launch_failed"
          /\ fault' = "launch"
          /\ UNCHANGED browser_proc
    /\ calls' = calls
    /\ UNCHANGED <<browser, dst_directory, page_count, pad_size, page, exited, exit_status,
                   dirs, files, quit_calls, written, docs, end_kind, dst_before>>

\* Faulty variant of StartSettled: the handle is not kept in `browser`.
StartSettledDropsHandle ==
    /\ ~exited /\ session_state = "Start" /\ pc = "settle"
    /\ browser' = None
    /\ session_state' = "Login"
    /\ pc' = "top"
    /\ calls' = calls
    /\ UNCHANGED <<ret_code, dst_directory, page_count, pad_size, page, exited, exit_status,
                   dirs, files, browser_proc, quit_calls, written, docs, fault, end_kind,
                   last_prompt, last_input, dst_before>>

\* Lines 62-63, 185, 190-191: the settle delay is over, `browser` is assigned.
StartSettled ==
    /\ ~exited /\ session_state = "Start" /\ pc = "settle"
    /\ browser' = Handle
    /\ session_state' = "Login"
    /\ pc' = "top"
    /\ calls' = calls
    /\ UNCHANGED <<ret_code, dst_directory, page_count, pad_size, page, exited, exit_status,
                   dirs, files, browser_proc, quit_calls, written, docs, fault, end_kind,
                   last_prompt, last_input, dst_before>>

\* Faulty variant of StartFailedAck: the outcome is cleared once reported.
StartFailedAckClearsOutcome ==
    /\ ~exited /\ pc = "launch_failed"
    /\ last_prompt' = "launch_failed" /\ last_input' = EmptyLine
    /\ pc' = "top"
    /\ ret_code' = NoError
    /\ calls' = calls
    /\ UNCHANGED <<session_state, browser, dst_directory, page_count, pad_size,
                   page, exited, exit_status, dirs, files, browser_proc, quit_calls, written,
                   docs, fault, end_kind, dst_before>>

\* Line 189: the operator answers the "Failed to open browser" prompt.
StartFailedAck ==
    /\ ~exited /\ pc = "launch_failed"
    /\ last_prompt' = "launch_failed" /\ last_input' = EmptyLine
    /\ pc' = "top"
    /\ calls' = calls
    /\ UNCHANGED <<session_state, ret_code, browser, dst_directory, page_count, pad_size,
                   page, exited, exit_status, dirs, files, browser_proc, quit_calls, written,
                   docs, fault, end_kind, dst_before>>

\* ------------------------------------------------------------------ Login
\* Faulty variant of Login: the OpenPDF state is skipped.
LoginSkipsOpenPDF ==
    /\ ~exited /\ session_state = "Login" /\ pc = "top"
    /\ last_prompt' = "login" /\ last_input' = EmptyLine
    /\ session_state' = "DestinationDirectory"
    /\ calls' = calls
    /\ UNCHANGED <<ret_code, browser, dst_directory, page_count, pad_size, page, pc, exited,
                   exit_status, dirs, files, browser_proc, quit_calls, written, docs, fault,
                   end_kind, dst_before>>

\* Lines 193-195.
Login ==
    /\ ~exited /\ session_state = "Login" /\ pc = "top"
    /\ last_prompt' = "login" /\ last_input' = EmptyLine
    /\ session_state' = "OpenPDF"
    /\ calls' = calls
    /\ UNCHANGED <<ret_code, browser, dst_directory, page_count, pad_size, page, pc, exited,
                   exit_status, dirs, files, browser_proc, quit_calls, written, docs, fault,
                   end_kind, dst_before>>

\* ---------------------------------------------------------------- OpenPDF
\* Lines 198-217: the prompt, then browser_pdf_locate_tabs (lines 86-102).
\* No pdf tab: the state stays OpenPDF.  A pdf tab: switch to it.  A webdriver
\* call that raises is caught by nothing.
OpenPDF ==
    /\ ~exited /\ session_state = "OpenPDF" /\ pc = "top"
    /\ last_prompt' = "open_pdf" /\ last_input' = EmptyLine
    /\ \/ /\ session_state' = "OpenPDF"
          /\ UNCHANGED <<exited, exit_status, end_kind, fault>>
       \/ /\ session_state' = "DestinationDirectory"
          /\ UNCHANGED <<exited, exit_status, end_kind, fault>>
       \/ /\ Uncaught("locate_tabs")
          /\ UNCHANGED session_state
    /\ calls' = calls
    /\ UNCHANGED <<ret_code, browser, dst_directory, page_count, pad_size, page, pc, dirs,
                   files, browser_proc, quit_calls, written, docs, dst_before>>

\* --------------------------------------------------- DestinationDirectory
\* Faulty variant of DirEmpty: the empty name is accepted and the session advances.
DirEmptyAdvances ==
    /\ ~exited /\ session_state = "DestinationDirectory" /\ pc = "top"
    /\ last_prompt' = "dir_name" /\ last_input' = EmptyLine
    /\ dst_before' = dst_directory
    /\ session_state' = "PrepareScan"
    /\ calls' = calls
    /\ UNCHANGED <<ret_code, browser, dst_directory, page_count, pad_size, page, pc, exited,
                   exit_status, dirs, files, browser_proc, quit_calls, written, docs, fault,
                   end_kind>>

\* Lines 221-222, 244-245: the name prompt answered with the empty line.
DirEmpty ==
    /\ ~exited /\ session_state = "DestinationDirectory" /\ pc = "top"
    /\ last_prompt' = "dir_name" /\ last_input' = EmptyLine
    /\ dst_before' = dst_directory
    /\ calls' = calls
    /\ UNCHANGED <<session_state, ret_code, browser, dst_directory, page_count, pad_size,
                   page, pc, exited, exit_status, dirs, files, browser_proc, quit_calls,
                   written, docs, fault, end_kind>>

\* Lines 221-225, 231-233: a non-empty name is resolved and stored, and one
\* of the two confirmation prompts is shown.
DirEnter(out_dir) ==
    /\ ~exited /\ session_state = "DestinationDirectory" /\ pc = "top"
    /\ out_dir # EmptyLine
    /\ last_prompt' = "dir_name" /\ last_input' = out_dir
    /\ dst_before' = dst_directory
    /\ dst_directory' = Resolve(out_dir)
    /\ pc' = IF Exists(Resolve(out_dir), dirs) THEN "confirm_existing" ELSE "confirm_create"
    /\ calls' = calls
    /\ UNCHANGED <<session_state, ret_code, browser, page_count, pad_size, page, exited,
                   exit_status, dirs, files, browser_proc, quit_calls, written, docs, fault,
                   end_kind>>

\* Lines 225-230, 243: the answer to "already exists! Enter [y,Y]".
ConfirmExisting(confirm) ==
    /\ ~exited /\ session_state = "DestinationDirectory" /\ pc = "confirm_existing"
    /\ last_prompt' = "confirm_existing" /\ last_input' = confirm
    /\ pc' = "top"
    /\ session_state' = IF Affirmative(confirm) THEN "PrepareScan" ELSE "DestinationDirectory"
    /\ calls' = calls
    /\ UNCHANGED <<ret_code, browser, dst_directory, page_count, pad_size, page, exited,
                   exit_status, dirs, files, browser_proc, quit_calls, written, docs, fault,
                   end_kind, dst_before>>

\* Lines 232-235: the answer to "Creating directory ..." is not y or Y.
DeclineCreate(confirm) ==
    /\ ~exited /\ session_state = "DestinationDirectory" /\ pc = "confirm_create"
    /\ ~Affirmative(confirm)
    /\ last_prompt' = "confirm_create" /\ last_input' = confirm
    /\ pc' = "top"
    /\ calls' = calls
    /\ UNCHANGED <<session_state, ret_code, browser, dst_directory, page_count, pad_size,
                   page, exited, exit_status, dirs, files, browser_proc, quit_calls, written,
                   docs, fault, end_kind, dst_before>>

\* Faulty variant of MkdirFailed: the failure is escalated to a session error.
MkdirFailedEscalates ==
    /\ pc' = "top"
    /\ fault' = "mkdir"
    /\ ret_code' = DriverError
    /\ session_state' = "CloseSession"
    /\ UNCHANGED <<dirs, exited, exit_status, end_kind>>

\* Lines 237-241: mkdir raised: the message is printed and the loop continues.
MkdirFailed ==
    /\ pc' = "top"
    /\ fault' = "mkdir"
    /\ UNCHANGED <<session_state, ret_code, dirs, exited, exit_status, end_kind>>

\* Lines 237-238, 243: mkdir(parents=True, exist_ok=True) made the directory.
MkdirDone ==
    /\ dirs' = dirs \cup {dst_directory}
    /\ session_state' = "PrepareScan"
    /\ pc' = "top"
    /\ UNCHANGED <<ret_code, fault, exited, exit_status, end_kind>>

\* Lines 232-243: the answer is y or Y and the directory is created, or not.
ConfirmCreate(confirm) ==
    /\ ~exited /\ session_state = "DestinationDirectory" /\ pc = "confirm_create"
    /\ Affirmative(confirm)
    /\ last_prompt' = "confirm_create" /\ last_input' = confirm
    /\ \/ MkdirDone
       \/ MkdirFailed
    /\ calls' = calls
    /\ UNCHANGED <<browser, dst_directory, page_count, pad_size, page, files, browser_proc,
                   quit_calls, written, docs, dst_before>>

\* ------------------------------------------------------------ PrepareScan
\* The calls of lines 250-254 that can raise, in order: minimize/maximize
\* (78-83), find_elements/click (105-113), find_element numPages (136), int()
\* of its last token (137), find_element page (140), get/set_window_rect
\* (118-122), send_keys HOME (126-127).
PrepareFaults == {"reset_window", "fit_width", "num_pages_absent", "num_pages_unparsable",
                  "page_rect", "fit_height", "goto_start"}

\* The exception class a failing call raises.  Only browser_pdf_next_page
\* wraps its failure in ScanException (lines 156-159); lines 78-144 raise
\* what selenium, int() or the list index raises.
RaisedBy(call) == IF call = "next_page" THEN "ScanException" ELSE "Exception"
\* scan_exc.code of the ScanException raised by line 159.
ScanCode(call) == IF call = "next_page" THEN PaginationError ELSE NoError
\* `except ScanException as scan_exc:` (line 255).
PrepareCatches(exc) == exc = "ScanException"

\* Lines 248-258: a preparation call raises.
PrepareFailed(call) ==
    /\ ~exited /\ session_state = "PrepareScan" /\ pc = "top"
    /\ IF PrepareCatches(RaisedBy(call))
          THEN /\ ret_code' = ScanCode(call)
               /\ session_state' = "CloseSession"
               /\ fault' = call
               /\ UNCHANGED <<exited, exit_status, end_kind>>
          ELSE /\ Uncaught(call)
               /\ UNCHANGED <<ret_code, session_state>>
    /\ calls' = calls
    /\ UNCHANGED <<browser, dst_directory, page_count, pad_size, page, pc, dirs, files,
                   browser_proc, quit_calls, written, docs, last_prompt, last_input,
                   dst_before>>

\* Lines 248-254, 259-260: all five calls return; the viewer's label gave count.
PrepareDone(count) ==
    /\ ~exited /\ session_state = "PrepareScan" /\ pc = "top"
    /\ page_count' = count
    /\ session_state' = "ScanPDF"
    /\ calls' = calls
    /\ UNCHANGED <<ret_code, browser, dst_directory, pad_size, page, pc, exited, exit_status,
                   dirs, files, browser_proc, quit_calls, written, docs, fault, end_kind,
                   last_prompt, last_input, dst_before>>

\* ---------------------------------------------------------------- ScanPDF
\* Lines 263-267: pad_size is computed and the loop starts at page 0.
\* math.log10 raises ValueError for a count below 1.
ScanBegin ==
    /\ ~exited /\ session_state = "ScanPDF" /\ pc = "top"
    /\ IF page_count < 1
          THEN /\ Uncaught("log10")
               /\ UNCHANGED <<pad_size, page, pc, written, calls>>
          ELSE /\ pad_size' = PadSize(page_count)
               /\ page' = 0
               /\ written' = <<>>
               /\ calls' = <<>>
               /\ pc' = "capture"
               /\ UNCHANGED <<exited, exit_status, end_kind, fault>>
    /\ UNCHANGED <<session_state, ret_code, browser, dst_directory, page_count, dirs, files,
                   browser_proc, quit_calls, docs, last_prompt, last_input, dst_before>>

\* Lines 268-269, 147-151: the screenshot of the current page is saved, or
\* the webdriver call raises.  When the destination is no directory the
\* file cannot be opened: save_full_page_screenshot reports that by
\* returning False, which line 151 discards, and the loop goes on.
Capture ==
    /\ ~exited /\ session_state = "ScanPDF" /\ pc = "capture"
    /\ calls' = Append(calls, [op |-> "capture", page |-> page])
    /\ \/ /\ dst_directory \in dirs
          /\ files' = files \cup {<<dst_directory, PageName(page, pad_size)>>}
          /\ written' = Append(written, PageName(page, pad_size))
          /\ pc' = "next"
          /\ UNCHANGED <<exited, exit_status, end_kind, fault>>
       \/ /\ dst_directory \notin dirs
          /\ pc' = "next"
          /\ UNCHANGED <<files, written, exited, exit_status, end_kind, fault>>
       \/ /\ Uncaught("screenshot")
          /\ UNCHANGED <<files, written, pc>>
    /\ UNCHANGED <<session_state, ret_code, browser, dst_directory, page_count, pad_size,
                   page, dirs, browser_proc, quit_calls, docs, last_prompt, last_input,
                   dst_before>>

\* Lines 270, 154-159: the Next Page button is clicked, or the ScanException
\* of line 159 is raised, which line 298 does not catch.
NextPage ==
    /\ ~exited /\ session_state = "ScanPDF" /\ pc = "next"
    /\ calls' = Append(calls, [op |-> "next_page", page |-> page])
    /\ \/ /\ pc' = "sleep"
          /\ UNCHANGED <<exited, exit_status, end_kind, fault>>
       \/ /\ Uncaught("next_page")
          /\ UNCHANGED pc
    /\ UNCHANGED <<session_state, ret_code, browser, dst_directory, page_count, pad_size,
                   page, dirs, files, browser_proc, quit_calls, written, docs, last_prompt,
                   last_input, dst_before>>

\* Faulty variant of HasNextPage: the loop stops one page early.
HasNextPageStopsEarly(p, count) == p + 2 < count
\* range(pdf_properties["page_count"]) of line 267: is there a page after p.
HasNextPage(p, count) == p + 1 < count

\* Faulty variant of PageDelay: the loop variable advances by two.
PageDelaySkipsPage ==
    /\ ~exited /\ session_state = "ScanPDF" /\ pc = "sleep"
    /\ calls' = Append(calls, [op |-> "sleep", page |-> page])
    /\ IF HasNextPage(page, page_count)
          THEN /\ page' = page + 2
               /\ pc' = "capture"
               /\ UNCHANGED <<session_state, docs>>
          ELSE /\ session_state' = "AnotherPDF"
               /\ pc' = "top"
               /\ docs' = docs + 1
               /\ UNCHANGED page
    /\ UNCHANGED <<ret_code, browser, dst_directory, page_count, pad_size, exited,
                   exit_status, dirs, files, browser_proc, quit_calls, written, fault,
                   end_kind, last_prompt, last_input, dst_before>>

\* Lines 271, 267, 273-275: the delay is over; the loop goes on with the next
\* page or ends, and the state becomes AnotherPDF.
PageDelay ==
    /\ ~exited /\ session_state = "ScanPDF" /\ pc = "sleep"
    /\ calls' = Append(calls, [op |-> "sleep", page |-> page])
    /\ IF HasNextPage(page, page_count)
          THEN /\ page' = page + 1
               /\ pc' = "capture"
               /\ UNCHANGED <<session_state, docs>>
          ELSE /\ session_state' = "AnotherPDF"
               /\ pc' = "top"
               /\ docs' = docs + 1
               /\ UNCHANGED page
    /\ UNCHANGED <<ret_code, browser, dst_directory, page_count, pad_size, exited,
                   exit_status, dirs, files, browser_proc, quit_calls, written, fault,
                   end_kind, last_prompt, last_input, dst_before>>

\* ------------------------------------------------------------- AnotherPDF
\* Faulty variant of AnotherPDF: y or Y goes straight to the preparation of
\* the next document, with the directory of the previous one.
AnotherPDFKeepsDirectory(another) ==
    /\ ~exited /\ session_state = "AnotherPDF" /\ pc = "top"
    /\ Affirmative(another) => docs < MaxDocs
    /\ last_prompt' = "another" /\ last_input' = another
    /\ session_state' = IF Affirmative(another) THEN "PrepareScan" ELSE "CloseSession"
    /\ calls' = calls
    /\ UNCHANGED <<ret_code, browser, dst_directory, page_count, pad_size, page, pc, exited,
                   exit_status, dirs, files, browser_proc, quit_calls, written, docs, fault,
                   end_kind, dst_before>>

\* Lines 278-285.  The operator asks for at most MaxDocs documents.
AnotherPDF(another) ==
    /\ ~exited /\ session_state = "AnotherPDF" /\ pc = "top"
    /\ Affirmative(another) => docs < MaxDocs
    /\ last_prompt' = "another" /\ last_input' = another
    /\ session_state' = IF Affirmative(another) THEN "OpenPDF" ELSE "CloseSession"
    /\ calls' = calls
    /\ UNCHANGED <<ret_code, browser, dst_directory, page_count, pad_size, page, pc, exited,
                   exit_status, dirs, files, browser_proc, quit_calls, written, docs, fault,
                   end_kind, dst_before>>

\* ----------------------------------------------------------- CloseSession
\* Lines 288-292: the browser is quit if `browser` is set, then the report
\* is printed.
CloseQuit ==
    /\ ~exited /\ session_state = "CloseSession" /\ pc = "top"
    /\ quit_calls' = IF BrowserIsSet(browser) THEN quit_calls + 1 ELSE quit_calls
    /\ browser_proc' = IF BrowserIsSet(browser) THEN "quit" ELSE browser_proc
    /\ pc' = "report"
    /\ calls' = calls
    /\ UNCHANGED <<session_state, ret_code, browser, dst_directory, page_count, pad_size,
                   page, exited, exit_status, dirs, files, written, docs, fault, end_kind,
                   last_prompt, last_input, dst_before>>

\* Faulty variant of CloseStatus: the outcome is ignored.
CloseStatusIgnoresOutcome(code) == SysExit(0)
\* Lines 293-296.
CloseStatus(code) == IF code = NoError THEN SysExit(0) ELSE SysExit(-1)

\* Lines 293-296: sys.exit; SystemExit is not caught by line 298.
CloseExit ==
    /\ ~exited /\ session_state = "CloseSession" /\ pc = "report"
    /\ exited' = TRUE
    /\ exit_status' = CloseStatus(ret_code)
    /\ end_kind' = "close"
    /\ calls' = calls
    /\ UNCHANGED <<session_state, ret_code, browser, dst_directory, page_count, pad_size,
                   page, pc, dirs, files, browser_proc, quit_calls, written, docs, fault,
                   last_prompt, last_input, dst_before>>

\* ------------------------------------------------------------ specification
\* The `while True` loop of lines 178-301.
Next ==
    \/ StartLaunch
    \/ StartSettled
    \/ StartFailedAck
    \/ Login
    \/ OpenPDF
    \/ DirEmpty
    \/ \E out_dir \in DirInputs : DirEnter(out_dir)
    \/ \E confirm \in Answers : ConfirmExisting(confirm)
    \/ \E confirm \in Answers : DeclineCreate(confirm)
    \/ \E confirm \in Answers : ConfirmCreate(confirm)
    \/ \E call \in PrepareFaults : PrepareFailed(call)
    \/ \E count \in PageCounts : PrepareDone(count)
    \/ ScanBegin
    \/ Capture
    \/ NextPage
    \/ PageDelay
    \/ \E another \in Answers : AnotherPDF(another)
    \/ CloseQuit
    \/ CloseExit
    \/ Interrupt

Spec == Init /\ [][Next]_vars

\* ----------------------------------------------------------------- typing
TypeOK ==
    /\ session_state \in SessionState
    /\ ret_code \in PDFScanError
    /\ browser \in {None, Handle}
    /\ page_count \in -1..MaxPageCount
    /\ pc \in {"top", "settle", "launch_failed", "confirm_existing", "confirm_create",
               "capture", "next", "sleep", "report"}
    /\ exited \in BOOLEAN
    /\ exit_status \in 0..255
    /\ browser_proc \in {"none", "running", "quit"}
    /\ quit_calls \in 0..2
    /\ docs \in 0..MaxDocs
    /\ end_kind \in {"none", "close", "interrupt", "uncaught"}

\* ================================================================= claims

\* ----------------------------------------------------------------- C1
\* C1: in every session in which the browser was launched, browser.quit is
\* invoked exactly once before the process ends, on every exit path: never
\* twice at any time, and not zero times once the process has ended.
C1_QuitExactlyOnce ==
    /\ quit_calls <= 1
    /\ (exited /\ browser_proc # "none") => quit_calls = 1

\* ----------------------------------------------------------------- C2
\* C2: an operator interrupt in any state ends the process with a non-zero
\* status, and a browser that was launched has been released by then.
C2_InterruptReleasesBrowser ==
    end_kind = "interrupt" =>
        /\ exited
        /\ exit_status # 0
        /\ browser_proc # "running"

\* ----------------------------------------------------------------- C3
\* The failures of browser_pdf_get_properties.
PropertiesFaults == {"num_pages_absent", "num_pages_unparsable", "page_rect"}

\* C3: once a preparation step has failed, the session is in CloseSession
\* with a failure outcome recorded (PropertiesFetchError for a properties
\* failure), and it did not end anywhere else.
C3_PrepareFailureGoesToClose ==
    fault \in PrepareFaults =>
        /\ session_state = "CloseSession"
        /\ ret_code # NoError
        /\ fault \in PropertiesFaults => ret_code = PropertiesFetchError

\* ----------------------------------------------------------------- C4
\* The way the session ended, in the terms of the error taxonomy.
EndedBy ==
    IF end_kind = "interrupt" THEN "OperatorAbort"
    ELSE IF fault = "launch" THEN "DriverError"
    ELSE IF fault \in PropertiesFaults THEN "PropertiesFetchError"
    ELSE IF fault \in {"fit_width", "fit_height"} THEN "ZoomError"
    ELSE IF fault \in {"reset_window", "goto_start", "locate_tabs"} THEN "LoadError"
    ELSE IF fault = "next_page" THEN "PaginationError"
    ELSE IF end_kind = "uncaught" THEN "Other"
    ELSE "NoError"

\* The exit status the program gives a session that ends in each way.
StatusOfKind(kind) ==
    CASE kind = "NoError" -> CloseStatus(NoError)
      [] kind = "DriverError" -> CloseStatus(DriverError)
      [] kind = "OperatorAbort" -> SysExit(-1)
      [] OTHER -> UncaughtExit

\* The table above is the program's: every ended session has the status the
\* table gives for the way it ended.
StatusTableIsTheCodes == exited => exit_status = StatusOfKind(EndedBy)

TaxonomyKinds == {"NoError", "DriverError", "LoadError", "PropertiesFetchError", "ZoomError",
                  "PaginationError", "OperatorAbort"}

\* C4: the exit status of an ended session differs from the status of every
\* other way of ending (success, each other failure kind, operator abort).
C4_DistinctExitStatuses ==
    (exited /\ EndedBy \in TaxonomyKinds) =>
        \A other \in TaxonomyKinds \ {EndedBy} : exit_status # StatusOfKind(other)

\* ----------------------------------------------------------------- C5
\* C5: an ended process has status 0 exactly when it ended through
\* CloseSession (not by an operator abort or an uncaught error) with outcome
\* NoError; every other end has a non-zero status.
C5_ExitZeroIffNoError ==
    exited =>
        (exit_status = 0 <=>
            (end_kind = "close" /\ session_state = "CloseSession" /\ ret_code = NoError))

C5_Witness == exited /\ exit_status = 0 /\ docs >= 1

\* ----------------------------------------------------------------- C6
\* The characters of "page_0.png", "page_1.png", "page_2.png".
ThreePages == << <<"p", "a", "g", "e", "_", "0", ".", "p", "n", "g">>,
                 <<"p", "a", "g", "e", "_", "1", ".", "p", "n", "g">>,
                 <<"p", "a", "g", "e", "_", "2", ".", "p", "n", "g">> >>

\* C6: when a scan of N >= 1 pages has completed (the state is AnotherPDF),
\* it saved exactly N files, the i-th being page i-1 under the padded name,
\* all names distinct and all present in the destination directory; for
\* N = 3 they are page_0.png, page_1.png, page_2.png; and a session that
\* then ends through CloseSession has status 0.
C6_ScanWritesNFiles ==
    /\ (session_state = "AnotherPDF" /\ dst_directory \in dirs) =>
        /\ page_count >= 1
        /\ Len(written) = page_count
        /\ Cardinality({written[i] : i \in 1..Len(written)}) = page_count
        /\ \A i \in 1..Len(written) :
              /\ written[i] = PageName(i - 1, PadSize(page_count))
              /\ <<dst_directory, written[i]>> \in files
        /\ page_count = 3 => written = ThreePages
    /\ (exited /\ end_kind = "close" /\ docs >= 1) => exit_status = 0

C6_Witness == session_state = "AnotherPDF" /\ page_count = 3 /\ Len(written) = 3

\* ----------------------------------------------------------------- C7
\* Code point order of the characters of a page file name.
CharOrder == <<".", "0", "1", "2", "3", "4", "5", "6", "7", "8", "9", "_", "a", "e", "g", "n", "p">>
Ord(c) == CHOOSE i \in 1..Len(CharOrder) : CharOrder[i] = c
\* a < b as Python compares str: by the first differing character, a proper
\* prefix first.
RECURSIVE StrLess(_, _)
StrLess(a, b) ==
    IF b = <<>> THEN FALSE
    ELSE IF a = <<>> THEN TRUE
    ELSE IF Head(a) = Head(b) THEN StrLess(Tail(a), Tail(b))
    ELSE Ord(Head(a)) < Ord(Head(b))

\* C7: the names a completed scan saved all have the same length, and
\* sorted as strings they are in page order.
C7_NamesSortInPageOrder ==
    session_state = "AnotherPDF" =>
        \A i, j \in 1..Len(written) :
            i < j => (Len(written[i]) = Len(written[j]) /\ StrLess(written[i], written[j]))

\* ----------------------------------------------------------------- C8
\* C8: a step that answers the directory-name prompt with the empty line
\* leaves the state DestinationDirectory at the name prompt (no confirmation
\* prompt), creates nothing and keeps the stored directory and the outcome.
C8_EmptyNameChangesNothing ==
    [][(/\ session_state = "DestinationDirectory" /\ pc = "top"
        /\ last_prompt' = "dir_name" /\ last_input' = <<>> /\ ~exited')
       => (/\ session_state' = "DestinationDirectory"
           /\ pc' = "top"
           /\ dst_directory' = dst_directory
           /\ ret_code' = ret_code
           /\ dirs' = dirs
           /\ files' = files)]_vars

C8_Witness ==
    /\ session_state = "DestinationDirectory" /\ pc = "top"
    /\ last_prompt = "dir_name" /\ last_input = <<>>

\* ----------------------------------------------------------------- C9
\* A step that answers one of the two confirmation prompts.
ConfirmStep ==
    /\ session_state = "DestinationDirectory"
    /\ pc \in {"confirm_existing", "confirm_create"}
    /\ last_prompt' \in {"confirm_existing", "confirm_create"}

\* C9 as claimed: only y and Y advance to PrepareScan; any other answer
\* keeps the state, creates nothing and leaves the stored directory and the
\* outcome as they were before the attempt (before the name was entered).
C9_DeclineRestoresDirectory ==
    [][ConfirmStep =>
        IF last_input' \in {<<"y">>, <<"Y">>}
           THEN session_state' \in {"PrepareScan", "DestinationDirectory"}
           ELSE /\ session_state' = "DestinationDirectory" /\ pc' = "top"
                /\ dirs' = dirs /\ files' = files
                /\ ret_code' = ret_code
                /\ dst_directory' = dst_before]_vars

\* C9 as amended: the same, except that the stored directory is the resolved
\* path of the name just entered (last_input before the step is that name).
C9_DeclineKeepsEnteredDirectory ==
    [][ConfirmStep =>
        IF last_input' \in {<<"y">>, <<"Y">>}
           THEN session_state' \in {"PrepareScan", "DestinationDirectory"}
           ELSE /\ session_state' = "DestinationDirectory" /\ pc' = "top"
                /\ dirs' = dirs /\ files' = files
                /\ ret_code' = ret_code
                /\ dst_directory' = Resolve(last_input)
                /\ dst_directory' = dst_directory]_vars

C9_Witness ==
    /\ session_state = "DestinationDirectory" /\ pc = "top"
    /\ last_prompt = "confirm_existing" /\ last_input = <<"n">>
    /\ dst_directory # dst_before

\* ----------------------------------------------------------------- C10
\* C10: a step in which the operator confirmed the creation and the
\* directory still does not exist afterwards (mkdir failed) keeps the state
\* DestinationDirectory at the name prompt, keeps the outcome NoError and
\* does not end the process.
C10_MkdirFailureReprompts ==
    [][(/\ session_state = "DestinationDirectory" /\ pc = "confirm_create"
        /\ last_prompt' = "confirm_create" /\ last_input' \in {<<"y">>, <<"Y">>}
        /\ dst_directory \notin dirs')
       => (/\ session_state' = "DestinationDirectory"
           /\ pc' = "top"
           /\ ret_code' = NoError
           /\ ~exited')]_vars

C10_Witness ==
    /\ session_state = "DestinationDirectory" /\ pc = "top"
    /\ last_prompt = "confirm_create" /\ last_input = <<"y">>
    /\ fault = "mkdir" /\ dst_directory \notin dirs

\* ----------------------------------------------------------------- C11
\* A destination directory has been confirmed in this session.
DirectoryConfirmed == session_state \in {"PrepareScan", "ScanPDF", "AnotherPDF"} \/ docs >= 1

C12_OutcomeSetOnce ==
    /\ ret_code = NoError
    /\ [][/\ ret_code # NoError => ret_code' = ret_code
          /\ (~exited /\ exited') =>
                IF end_kind' = "close"
                   THEN /\ session_state = "CloseSession"
                        /\ exit_status' = (IF ret_code = NoError THEN 0 ELSE 255)
                   ELSE exit_status' = (IF end_kind' = "interrupt" THEN 255 ELSE 1)]_vars

C12_Witness == ret_code = DriverError /\ exited /\ end_kind = "close" /\ exit_status = 255

\* ----------------------------------------------------------------- C13
\* The transitions of the state table, in the program's state names.
StateTable ==
    {<<"Start", "Login">>, <<"Start", "CloseSession">>, <<"Login", "OpenPDF">>,
     <<"OpenPDF", "OpenPDF">>, <<"OpenPDF", "DestinationDirectory">>,
     <<"DestinationDirectory", "DestinationDirectory">>,
     <<"DestinationDirectory", "PrepareScan">>, <<"PrepareScan", "ScanPDF">>,
     <<"PrepareScan", "CloseSession">>, <<"ScanPDF", "AnotherPDF">>,
     <<"AnotherPDF", "OpenPDF">>, <<"AnotherPDF", "CloseSession">>}

\* C13: the session starts in Start; every step that changes the state
\* makes a transition of the table; AnotherPDF goes to OpenPDF exactly on the
\* answers y and Y; nothing leaves CloseSession.
C13_OnlyTableTransitions ==
    /\ session_state = "Start"
    /\ [][session_state' # session_state =>
            /\ <<session_state, session_state'>> \in StateTable
            /\ session_state # "CloseSession"
            /\ session_state = "AnotherPDF" =>
                  (session_state' = "OpenPDF" <=> last_input' \in {<<"y">>, <<"Y">>})]_vars

C13_Witness == session_state = "OpenPDF" /\ docs = 1 /\ last_prompt = "another"

\* ----------------------------------------------------------------- C14
\* C14: after a failed launch the outcome is DriverError and the state is
\* CloseSession for good; no handle exists, no browser call of a scan and no
\* quit has been made, no document was scanned, and an ended process has a
\* non-zero status.
C14_LaunchFailureClosesSession ==
    fault = "launch" =>
        /\ ret_code = DriverError
        /\ session_state = "CloseSession"
        /\ browser = None /\ browser_proc = "none"
        /\ quit_calls = 0 /\ calls = <<>> /\ docs = 0
        /\ exited => exit_status # 0

C14_Witness == fault = "launch" /\ exited /\ end_kind = "close"

\* ----------------------------------------------------------------- C15
\* C15: after a pagination failure on page p the process has ended with a
\* non-zero status, in ScanPDF (AnotherPDF was not reached); the captures
\* made are those of pages 0..p and no other, and exactly their files have
\* been written to the destination.
C15_PaginationFailureEndsScan ==
    fault = "next_page" =>
        /\ exited /\ exit_status # 0
        /\ session_state = "ScanPDF"
        /\ Len(calls) = 3 * page + 2
        /\ Len(written) = page + 1
        /\ \A i \in 0..page :
              /\ written[i + 1] = PageName(i, PadSize(page_count))
              /\ <<dst_directory, written[i + 1]>> \in files

\* ----------------------------------------------------------------- C16
\* The three calls made for each page, in order.
PageCalls == <<"capture", "next_page", "sleep">>

\* C16: the calls of a scan are capture, advance, delay for page 0, then for
\* page 1, and so on with no page left out or repeated; a completed scan of N
\* pages made N captures, N advances and N delays.
C16_CallsInPageOrder ==
    /\ \A k \in 1..Len(calls) :
          /\ calls[k].page = (k - 1) \div 3
          /\ calls[k].op = PageCalls[((k - 1) % 3) + 1]
    /\ session_state = "AnotherPDF" =>
          /\ Len(calls) = 3 * page_count
          /\ Cardinality({k \in 1..Len(calls) : calls[k].op = "next_page"}) = page_count
          /\ {calls[k].page : k \in {j \in 1..Len(calls) : calls[j].op = "capture"}}
                = 0..(page_count - 1)

C16_Witness == session_state = "AnotherPDF" /\ page_count = 3 /\ Len(calls) = 9

\* ----------------------------------------------------------------- C17
\* The state whose handler shows each prompt.
PromptState(prompt) ==
    CASE prompt \in {"open_browser", "launch_failed"} -> "Start"
      [] prompt = "login" -> "Login"
      [] prompt = "open_pdf" -> "OpenPDF"
      [] prompt \in {"dir_name", "confirm_existing", "confirm_create"} -> "DestinationDirectory"
      [] prompt = "another" -> "AnotherPDF"
      [] OTHER -> "none"

\* Every failure ends the process, or leaves the state as it is at its first
\* prompt, or (the launch) shows a prompt and closes the session; and a
\* directory is created only by a step that answers the creation prompt
\* after a name was entered.
FailuresAreNotRetried ==
    /\ fault' # fault =>
          \/ exited'
          \/ fault' = "mkdir" /\ session_state' = session_state /\ pc' = "top"
          \/ fault' = "launch" /\ session_state' = "CloseSession" /\ pc' = "launch_failed"
    /\ dirs' # dirs => (last_prompt = "dir_name" /\ last_prompt' = "confirm_create")

Ungated == {<<"PrepareScan", "ScanPDF">>, <<"ScanPDF", "AnotherPDF">>}

C18_BrowserUsedWhileLive ==
    /\ (~exited /\ session_state \in {"OpenPDF", "PrepareScan", "ScanPDF"}) =>
          (browser = Handle /\ browser_proc = "running" /\ quit_calls = 0)
    /\ calls # <<>> => browser_proc # "none"
    /\ quit_calls >= 1 => (exited \/ (session_state = "CloseSession" /\ pc = "report"))

C18_Witness ==
    /\ ~exited /\ session_state = "ScanPDF" /\ pc = "capture" /\ page = 1
    /\ browser = Handle /\ browser_proc = "running"

\* ----------------------------------------------------------------- C19
\* Some document's pages are all saved: for some page count n >= 1 and some
\* directory, the files of pages 0..n-1 are there.
SomeDocumentSaved ==
    \E n \in PageCounts \ {0} : \E d \in dirs :
        \A i \in 0..(n - 1) : <<d, PageName(i, PadSize(n))>> \in files

\* C19: a process that ended with status 0 completed at least one scan, all
\* of whose pages were saved, and the last input was a non-affirmative
\* answer at AnotherPDF; and outside CloseSession the outcome is NoError.
C19_SuccessMeansPagesSaved ==
    /\ (exited /\ exit_status = 0) =>
          /\ docs >= 1
          /\ SomeDocumentSaved
          /\ last_prompt = "another" /\ last_input \notin {<<"y">>, <<"Y">>}
    /\ session_state # "CloseSession" => ret_code = NoError

\* ----------------------------------------------------------------- C20
\* C20: while the session is in PrepareScan or ScanPDF the stored directory
\* is the resolved path of a name the operator entered, the last input was
\* y or Y at a confirmation prompt, and the path is a directory that exists;
\* and every file saved is in a directory that exists.
C20_DestinationIsConfirmedDirectory ==
    /\ session_state \in {"PrepareScan", "ScanPDF"} =>
          /\ \E name \in DirInputs \ {<<>>} : dst_directory = Resolve(name)
          /\ last_prompt \in {"confirm_existing", "confirm_create"}
          /\ last_input \in {<<"y">>, <<"Y">>}
          /\ dst_directory \in dirs
    /\ \A f \in files : f[1] \in dirs

====
